---- MODULE Spec2Model ----
(***************************************************************************)
(* A model of ugit: the object store and ref store of data.py, the tree    *)
(* codec, commit graph and merge engine of base.py and the push/fetch      *)
(* protocol of remote.py.                                                  *)
(*                                                                         *)
(* Text is modelled as a sequence of tokens: a path or an entry name is a  *)
(* sequence of one-character strings, an object's bytes are the sequence   *)
(* <<type_, NUL>> \o content.  A type tag, an object id, a commit message  *)
(* and the markers SP (space), LF (line feed) and NUL are single tokens.   *)
(*                                                                         *)
(* A value the code computes once and reads several times is the          *)
(* parameter of a local operator, named after what was computed.  The      *)
(* staged index is the dict that data.get_index() hands to base.py and     *)
(* keeps when the with block ends.                                         *)
(*                                                                         *)
(* The operations are defined once and run in five specifications:         *)
(*   SpecTree   write_tree and read_tree of any staged mapping             *)
(*   Spec       commit, checkout, reset and merge in the local store       *)
(*   SpecSync   commit, reset, fetch and push between two stores           *)
(*   SpecGraph  get_merge_base and is_ancestor_of on the commit graphs     *)
(*              that commit builds                                         *)
(*   SpecRef    update_ref, delete_ref and get_ref under any name, with    *)
(*              commit and reset                                           *)
(***************************************************************************)
EXTENDS Integers, Sequences, FiniteSets, TLC

VARIABLES
    sha1,       \* the contents hashed so far; the k-th has hexdigest Hex[k]
    objects,    \* objects[s]: the files of <s>/.ugit/objects, oid -> bytes
    refs,       \* refs[s]: the ref files of <s>/.ugit, refname -> file text
    index,      \* index[s]: the staged mapping of s, a dict in insertion order
    last        \* what the last operation was and how it ended

vars == <<sha1, objects, refs, index, last>>

-----------------------------------------------------------------------------
(* Bounds of the model *)

MaxEntries == 2      \* entries of a flat mapping given to the tree codec
MaxCommits == 3      \* commits ever made in a repository at work
MaxDagCommits == 4   \* commits of a commit graph built for the graph algorithms
MaxRefCommits == 2   \* commits ever made while the ref store is written at will
MaxOpsCommits == 2   \* commits ever made while branches, tags and remotes are used
MaxStoreCommits == 3 \* commits ever made in two repositories that exchange objects
MaxValueCommits == 1 \* commits ever made while refs are given empty values
MaxMergingCommits == 3 \* commits ever made while a merge is in progress
MaxWalkCommits == 4  \* commits of a commit graph that is walked
MaxStart == 2        \* ids a walk starts from

-----------------------------------------------------------------------------
(* data.py: names *)

BLOB_T == "blob"
TREE_T == "tree"
PARENT_T == "parent"
COMMIT_T == "commit"

HEAD == "HEAD"
MERGE_HEAD == "MERGE_HEAD"
MASTER == "master"
HEADS == "heads"
REMOTE == "remote"
REFS == "refs"
TAGS == "tags"

\* the text "ref: ", as tokens
SYMBOLIC_REF_PREFIX == <<"ref", ":", " ">>

\* Python's None, the empty string and the text markers
None == "None"
Empty == ""
SP == " "
LF == "\n"
NUL == "NUL"
SLASH == "/"

\* the hexdigests, in the order in which their contents are first hashed
Hex == <<"o1", "o2", "o3", "o4", "o5", "o6", "o7", "o8", "o9", "o10", "o11", "o12">>

HexIds == {Hex[i] : i \in 1..Len(Hex)}

\* the three stores: the local one, the remote one the caller names, and the
\* store at the file-system root, /.ugit, which exists and was initialised
\* (without it every copy of push_object raises and no push succeeds)
Local == "local"
Remote == "remote"
Root == "root"
Stores == {Local, Remote, Root}

-----------------------------------------------------------------------------
(* Sequences and dicts *)

Range(s) == {s[i] : i \in 1..Len(s)}

\* the first position of x in s from position i on, 0 when there is none
RECURSIVE IndexFrom(_, _, _)
IndexFrom(s, x, i) ==
    IF i > Len(s) THEN 0 ELSE IF s[i] = x THEN i ELSE IndexFrom(s, x, i + 1)

IndexOf(s, x) == IndexFrom(s, x, 1)

\* the Python slice s[m-1:n], which ends where s ends
Slice(s, m, n) ==
    LET end == IF n < Len(s) THEN n ELSE Len(s)
    IN  IF m > end THEN <<>> ELSE SubSeq(s, m, end)

\* a dict is a sequence of [k, v] records with distinct keys, in insertion order
DictKeys(d) == {d[i].k : i \in 1..Len(d)}

DictPos(d, key) ==
    IF key \in DictKeys(d) THEN CHOOSE i \in 1..Len(d) : d[i].k = key ELSE 0

DictGet(d, key) == d[DictPos(d, key)].v

\* d[key] = value: an existing key keeps its place
DictSet(d, key, value) ==
    IF key \in DictKeys(d) THEN [d EXCEPT ![DictPos(d, key)] = [k |-> key, v |-> value]]
    ELSE Append(d, [k |-> key, v |-> value])

RECURSIVE DictUpdate(_, _)
DictUpdate(d, other) ==
    IF other = <<>> THEN d
    ELSE DictUpdate(DictSet(d, Head(other).k, Head(other).v), Tail(other))

\* the mapping a dict stands for: its set of (key, value) pairs
DictItems(d) == Range(d)

\* str.split(sep): the pieces of s between the occurrences of sep
RECURSIVE Split(_, _)
Split(s, sep) ==
    LET At(i) == IF i = 0 THEN <<s>>
                 ELSE <<SubSeq(s, 1, i - 1)>> \o Split(SubSeq(s, i + 1, Len(s)), sep)
    IN  At(IndexOf(s, sep))

\* str.split(sep, maxsplit)
RECURSIVE SplitMax(_, _, _)
SplitMax(s, sep, maxsplit) ==
    LET At(i) == IF i = 0 \/ maxsplit = 0 THEN <<s>>
                 ELSE <<SubSeq(s, 1, i - 1)>>
                      \o SplitMax(SubSeq(s, i + 1, Len(s)), sep, maxsplit - 1)
    IN  At(IndexOf(s, sep))

\* str.splitlines(): as Split on LF, without the empty piece after a final LF
SplitLines(s) ==
    LET Lines(parts) ==
            IF parts[Len(parts)] = <<>> THEN SubSeq(parts, 1, Len(parts) - 1) ELSE parts
    IN  Lines(Split(s, LF))

-----------------------------------------------------------------------------
(* data.py: the object store *)

\* hashlib.sha1(obj).hexdigest(): the table sha1 names every content hashed
\* so far; a content hashed for the first time gets the next digest
Sha1Table(tab, obj) == IF obj \in Range(tab) THEN tab ELSE Append(tab, obj)

\* a digest that does not depend on the content
Sha1HexFirst(tab, obj) == Hex[1]

Sha1Hex(tab, obj) == Hex[IndexOf(Sha1Table(tab, obj), obj)]

\* A hashing context h = [tab, obj, oid, err]: the digest table, the objects
\* of the store GIT_DIR names, the id last returned, and whether a call raised.
Ctx(tab, store) == [tab |-> tab, obj |-> store, oid |-> None, err |-> FALSE]

WriteFile(store, name, bytes) ==
    [n \in DOMAIN store \cup {name} |-> IF n = name THEN bytes ELSE store[n]]

hash_object(h, data, type_) ==
    LET Store(obj, oid) == [h EXCEPT !.tab = Sha1Table(h.tab, obj),
                                     !.obj = WriteFile(h.obj, oid, obj),
                                     !.oid = oid]
        Hash(obj) == Store(obj, Sha1Hex(h.tab, obj))
    IN  Hash(<<type_, NUL>> \o data)

object_exists(store, oid) == oid \in DOMAIN store

\* get_object(oid, expected): [err, content]; err when the file is missing or
\* the stored type is not the expected one
get_object(store, oid, expected) ==
    LET bad == [err |-> TRUE, content |-> <<>>]
        Parse(obj, first_null) ==
            IF first_null = 0 THEN bad
            ELSE IF expected # None /\ SubSeq(obj, 1, first_null - 1) # <<expected>> THEN bad
            ELSE [err |-> FALSE, content |-> SubSeq(obj, first_null + 1, Len(obj))]
    IN  IF ~object_exists(store, oid) THEN bad
        ELSE Parse(store[oid], IndexOf(store[oid], NUL))

-----------------------------------------------------------------------------
(* data.py: the ref store *)

RefValue(symbolic, value) == [symbolic |-> symbolic, value |-> value]

\* bool(x) of a Python string or None
Truthy(x) == x # None /\ x # Empty

\* the string a token sequence spells
RECURSIVE JoinAll(_)
JoinAll(s) == IF s = <<>> THEN Empty ELSE Head(s) \o JoinAll(Tail(s))

Join(s) == IF Len(s) = 1 THEN s[1] ELSE JoinAll(s)

\* str.strip(): without the white space at both ends
RECURSIVE LStrip(_)
LStrip(s) == IF s # <<>> /\ Head(s) \in {SP, LF} THEN LStrip(Tail(s)) ELSE s

RECURSIVE RStrip(_)
RStrip(s) ==
    IF s # <<>> /\ s[Len(s)] \in {SP, LF} THEN RStrip(SubSeq(s, 1, Len(s) - 1)) ELSE s

Strip(s) == RStrip(LStrip(s))

StartsWith(s, prefix) ==
    Len(s) >= Len(prefix) /\ SubSeq(s, 1, Len(prefix)) = prefix

\* the recursion limit of the interpreter, as far as a chain of this store can
\* use it: a chain that follows more links than there are ref files is cyclic
RecursionLimit(store) == Cardinality(DOMAIN store) + 1

\* _get_ref_internal(ref, deref): [ref, val, err]; err is the RecursionError
\* of a chain that never ends
RECURSIVE get_ref_internal_rec(_, _, _, _)
get_ref_internal_rec(store, ref, deref, depth) ==
    LET Follow(symbolic, value) ==
            IF symbolic /\ deref
            THEN IF depth >= RecursionLimit(store)
                 THEN [ref |-> ref, val |-> RefValue(FALSE, None), err |-> TRUE]
                 ELSE get_ref_internal_rec(store, value, TRUE, depth + 1)
            ELSE [ref |-> ref, val |-> RefValue(symbolic, value), err |-> FALSE]
        Value(text, symbolic) ==
            Follow(symbolic, IF symbolic THEN Join(Strip(SplitMax(text, ":", 1)[2]))
                             ELSE Join(text))
        Read(text) == Value(text, text # <<>> /\ StartsWith(text, SYMBOLIC_REF_PREFIX))
    IN  IF ref \in DOMAIN store THEN Read(Strip(store[ref])) ELSE Follow(FALSE, None)

\* a resolution that follows one link and stops there
get_ref_internal_once(store, ref, deref) ==
    LET Link(own) == IF own.val.symbolic /\ deref
                     THEN get_ref_internal_rec(store, own.val.value, FALSE, 0)
                     ELSE own
    IN  Link(get_ref_internal_rec(store, ref, FALSE, 0))

get_ref_internal(store, ref, deref) == get_ref_internal_rec(store, ref, deref, 0)

\* get_ref(ref, deref): the RefValue; use get_ref_internal where the chain may
\* be cyclic
get_ref(store, ref, deref) == get_ref_internal(store, ref, deref).val

\* the text update_ref writes for a RefValue
RefText(value) ==
    IF value.symbolic THEN SYMBOLIC_REF_PREFIX \o <<value.value>> ELSE <<value.value>>

\* an update that writes the named ref itself, whatever deref is
update_ref_no_deref(store, ref, value, deref) ==
    IF ~Truthy(value.value) THEN [store |-> store, err |-> TRUE]
    ELSE [store |-> WriteFile(store, ref, RefText(value)), err |-> FALSE]

\* an update that follows the chain from the named ref, whatever deref is
update_ref_always_deref(store, ref, value, deref) ==
    LET Write(r) ==
            IF r.err \/ ~Truthy(value.value) THEN [store |-> store, err |-> TRUE]
            ELSE [store |-> WriteFile(store, r.ref, RefText(value)), err |-> FALSE]
    IN  Write(get_ref_internal(store, ref, TRUE))

\* an update that writes whatever value it is given
update_ref_unchecked(store, ref, value, deref) ==
    LET Write(r) ==
            IF r.err THEN [store |-> store, err |-> TRUE]
            ELSE [store |-> WriteFile(store, r.ref, RefText(value)), err |-> FALSE]
    IN  Write(get_ref_internal(store, ref, deref))

\* update_ref(ref, value, deref): [store, err]; the store is unchanged when the
\* chain never ends or the value is empty
update_ref(store, ref, value, deref) ==
    LET Write(r) ==
            IF r.err \/ ~Truthy(value.value) THEN [store |-> store, err |-> TRUE]
            ELSE [store |-> WriteFile(store, r.ref, RefText(value)), err |-> FALSE]
    IN  Write(get_ref_internal(store, ref, deref))

\* delete_ref(ref, deref): [store, err]; os.remove raises on a missing file
delete_ref(store, ref, deref) ==
    LET Remove(r) ==
            IF r.err \/ r.ref \notin DOMAIN store THEN [store |-> store, err |-> TRUE]
            ELSE [store |-> [n \in DOMAIN store \ {r.ref} |-> store[n]], err |-> FALSE]
    IN  Remove(get_ref_internal(store, ref, deref))

-----------------------------------------------------------------------------
(* base.py: the tree codec *)

\* ord(c) of the characters of the model
Ord(c) ==
    CASE c = LF -> 10
      [] c = SP -> 32
      [] c = "." -> 46
      [] c = SLASH -> 47
      [] c = "a" -> 97
      [] c = "b" -> 98
      [] OTHER -> 127

\* s < t for two strings, as Python compares them
RECURSIVE StrLess(_, _)
StrLess(s, t) ==
    IF t = <<>> THEN FALSE
    ELSE IF s = <<>> THEN TRUE
    ELSE IF Head(s) # Head(t) THEN Ord(Head(s)) < Ord(Head(t))
    ELSE StrLess(Tail(s), Tail(t))

\* (name, oid, type_) tuples compare by name first; the names of one
\* directory are the keys of a dict, so no two entries share a name
EntryLess(a, b) == StrLess(a.name, b.name)

RECURSIVE InsertSorted(_, _)
InsertSorted(sorted, e) ==
    IF sorted = <<>> THEN <<e>>
    ELSE IF EntryLess(e, Head(sorted)) THEN <<e>> \o sorted
    ELSE <<Head(sorted)>> \o InsertSorted(Tail(sorted), e)

\* a sort that leaves the entries in the order of the dict
SortedAsGiven(entries) == entries

\* sorted(entries)
RECURSIVE Sorted(_)
Sorted(entries) ==
    IF entries = <<>> THEN <<>>
    ELSE InsertSorted(Sorted(SubSeq(entries, 1, Len(entries) - 1)), entries[Len(entries)])

\* the values of the nested dict index_as_tree: a blob id or a dict
BlobValue(oid) == [isdict |-> FALSE, oid |-> oid, sub |-> <<>>]
DictValue(d) == [isdict |-> TRUE, oid |-> None, sub |-> d]

\* lines 25-29 of write_tree for one index item: [err, d]. err is the
\* AttributeError or TypeError raised when a path goes through a name that is
\* already a file
RECURSIVE TreeInsert(_, _, _, _)
TreeInsert(current, dirpath, filename, oid) ==
    LET dirname == Head(dirpath)
        Put(withdir, r) == [err |-> r.err, d |-> DictSet(withdir, dirname, DictValue(r.d))]
        Descend(withdir, next) ==
            IF ~next.isdict THEN [err |-> TRUE, d |-> current]
            ELSE Put(withdir, TreeInsert(next.sub, Tail(dirpath), filename, oid))
        \* current.setdefault(dirname, {})
        SetDefault(withdir) == Descend(withdir, DictGet(withdir, dirname))
    IN  IF dirpath = <<>>
        THEN [err |-> FALSE, d |-> DictSet(current, filename, BlobValue(oid))]
        ELSE SetDefault(IF dirname \in DictKeys(current) THEN current
                        ELSE DictSet(current, dirname, DictValue(<<>>)))

\* lines 19-29 of write_tree: the index as a tree of dicts, [err, d]
RECURSIVE IndexAsTree(_, _)
IndexAsTree(acc, items) ==
    LET Item(path, oid) ==
            TreeInsert(acc.d, SubSeq(path, 1, Len(path) - 1), path[Len(path)], oid)
    IN  IF items = <<>> \/ acc.err THEN acc
        ELSE IndexAsTree(Item(Split(Head(items).k, SLASH), Head(items).v), Tail(items))

\* the text of a tree object: one line "<type_> <oid> <name>\n" an entry
RECURSIVE TreeText(_)
TreeText(entries) ==
    IF entries = <<>> THEN <<>>
    ELSE <<Head(entries).type_, SP, Head(entries).oid, SP>> \o Head(entries).name \o <<LF>>
         \o TreeText(Tail(entries))

\* write_tree_recursive(tree_dict), in the hashing context h; TreeEntries is
\* its loop over tree_dict.items(): [h, entries]
RECURSIVE write_tree_recursive(_, _)
RECURSIVE TreeEntries(_, _, _)
TreeEntries(h, items, entries) ==
    LET name == Head(items).k
        value == Head(items).v
        Sub(h2) == TreeEntries(h2, Tail(items),
                               Append(entries, [name |-> name, oid |-> h2.oid, type_ |-> TREE_T]))
    IN  IF items = <<>> THEN [h |-> h, entries |-> entries]
        ELSE IF value.isdict THEN Sub(write_tree_recursive(h, value.sub))
        ELSE TreeEntries(h, Tail(items),
                         Append(entries, [name |-> name, oid |-> value.oid, type_ |-> BLOB_T]))

write_tree_recursive(h, tree_dict) ==
    LET Write(r) == hash_object(r.h, TreeText(Sorted(r.entries)), TREE_T)
    IN  Write(TreeEntries(h, tree_dict, <<>>))

\* write_tree(), for the index idx: the context after it, oid the root id
write_tree(h, idx) ==
    LET Write(index_as_tree) ==
            IF index_as_tree.err THEN [h EXCEPT !.err = TRUE]
            ELSE write_tree_recursive(h, index_as_tree.d)
    IN  Write(IndexAsTree([err |-> FALSE, d |-> <<>>], idx))

\* _iter_tree_entries(oid): [err, entries]; err when the object is no tree of
\* the store or a line has no three fields
iter_tree_entries(store, oid) ==
    LET Entries(fields) ==
            IF \E i \in 1..Len(fields) : Len(fields[i]) # 3
            THEN [err |-> TRUE, entries |-> <<>>]
            ELSE [err |-> FALSE,
                  entries |-> [i \in 1..Len(fields) |->
                                  [type_ |-> Join(fields[i][1]),
                                   oid |-> Join(fields[i][2]),
                                   name |-> fields[i][3]]]]
        Lines(lines) == Entries([i \in 1..Len(lines) |-> SplitMax(lines[i], SP, 2)])
        Tree(tree) == IF tree.err THEN [err |-> TRUE, entries |-> <<>>]
                      ELSE Lines(SplitLines(tree.content))
    IN  IF ~Truthy(oid) THEN [err |-> FALSE, entries |-> <<>>]
        ELSE Tree(get_object(store, oid, TREE_T))

\* get_tree(oid, base_path): [err, d]; GetTreeEntries is its loop
RECURSIVE get_tree(_, _, _)
RECURSIVE GetTreeEntries(_, _, _, _)
GetTreeEntries(store, entries, base_path, result) ==
    LET e == Head(entries)
        path == base_path \o e.name
        Sub(sub) == IF sub.err THEN [err |-> TRUE, d |-> result]
                    ELSE GetTreeEntries(store, Tail(entries), base_path,
                                        DictUpdate(result, sub.d))
    IN  IF entries = <<>> THEN [err |-> FALSE, d |-> result]
        ELSE IF SLASH \in Range(e.name) \/ e.name \in {<<".", ".">>, <<".">>}
        THEN [err |-> TRUE, d |-> result]
        ELSE IF e.type_ = BLOB_T
        THEN GetTreeEntries(store, Tail(entries), base_path, DictSet(result, path, e.oid))
        ELSE IF e.type_ = TREE_T
        THEN Sub(get_tree(store, e.oid, path \o <<SLASH>>))
        ELSE [err |-> TRUE, d |-> result]

get_tree(store, oid, base_path) ==
    LET Tree(it) == IF it.err THEN [err |-> TRUE, d |-> <<>>]
                    ELSE GetTreeEntries(store, it.entries, base_path, <<>>)
    IN  Tree(iter_tree_entries(store, oid))

\* read_tree(tree_oid): the index replaced by the flattened tree, [err, index];
\* the index is written back only when the body of the with block returns
read_tree(store, idx, tree_oid) ==
    LET Read(t) == IF t.err THEN [err |-> TRUE, index |-> idx]
                   ELSE [err |-> FALSE, index |-> DictUpdate(<<>>, t.d)]
    IN  Read(get_tree(store, tree_oid, <<>>))

-----------------------------------------------------------------------------
(* base.py: the commit graph *)

RECURSIVE ParentLines(_)
ParentLines(parents) ==
    IF parents = <<>> THEN <<>>
    ELSE <<PARENT_T, SP, Head(parents), LF>> \o ParentLines(Tail(parents))

\* the text commit() builds: the tree line, the parent lines, an empty line
\* and the message
CommitText(tree, parents, message) ==
    <<TREE_T, SP, tree, LF>> \o ParentLines(parents) \o <<LF>> \o <<message, LF>>

\* itertools.takewhile(operator.truth, lines): the lines before the first
\* empty one
RECURSIVE TakeWhileTruthy(_)
TakeWhileTruthy(lines) ==
    IF lines = <<>> \/ Head(lines) = <<>> THEN <<>>
    ELSE <<Head(lines)>> \o TakeWhileTruthy(Tail(lines))

\* the values of the header lines with the given key, in order
RECURSIVE HeaderValues(_, _)
HeaderValues(fields, key) ==
    IF fields = <<>> THEN <<>>
    ELSE (IF Join(Head(fields)[1]) = key THEN <<Join(Head(fields)[2])>> ELSE <<>>)
         \o HeaderValues(Tail(fields), key)

\* get_commit(oid): [err, tree, parents]; err when the object is no commit of
\* the store, a header line has no value or an unknown key, or no line names
\* the tree
get_commit(store, oid) ==
    LET bad == [err |-> TRUE, tree |-> None, parents |-> <<>>]
        Parsed(fields, trees) ==
            IF \E i \in 1..Len(fields) : Len(fields[i]) # 2 THEN bad
            ELSE IF \E i \in 1..Len(fields) : Join(fields[i][1]) \notin {TREE_T, PARENT_T}
            THEN bad
            ELSE IF trees = <<>> THEN bad
            ELSE [err |-> FALSE, tree |-> trees[Len(trees)],
                  parents |-> HeaderValues(fields, PARENT_T)]
        Fields(fields) == Parsed(fields, HeaderValues(fields, TREE_T))
        Header(header) == Fields([i \in 1..Len(header) |-> SplitMax(header[i], SP, 1)])
        Object(obj) == IF obj.err THEN bad
                       ELSE Header(TakeWhileTruthy(SplitLines(obj.content)))
    IN  Object(get_object(store, oid, COMMIT_T))

\* every parent put at the end of the queue
ParentsSplitAllLater(parents) == [first |-> <<>>, rest |-> parents]

\* commit.parents[:1], put at the front, and commit.parents[1:], put at the end
ParentsSplit(parents) ==
    [first |-> Slice(parents, 1, 1), rest |-> Slice(parents, 2, Len(parents))]

\* iter_commits_and_parents(oids), run to its end: [seq, err]; seq is what it
\* yields, in order, and err tells that get_commit then raised on the last one
RECURSIVE IterCommits(_, _, _, _)
IterCommits(store, oids, visited, seq) ==
    LET oid == Head(oids)
        Parents(p) == IterCommits(store, p.first \o Tail(oids) \o p.rest,
                                  visited \cup {oid}, Append(seq, oid))
        Visit(commit) == IF commit.err THEN [seq |-> Append(seq, oid), err |-> TRUE]
                         ELSE Parents(ParentsSplit(commit.parents))
    IN  IF oids = <<>> THEN [seq |-> seq, err |-> FALSE]
        ELSE IF ~Truthy(oid) \/ oid \in visited
        THEN IterCommits(store, Tail(oids), visited, seq)
        ELSE Visit(get_commit(store, oid))

iter_commits_and_parents(store, oids) == IterCommits(store, oids, {}, <<>>)

\* The generator of iter_commits_and_parents, one next() at a time. g is its
\* frame: start, the ids it was given; oids, the deque; visited; seq, the ids
\* yielded so far; queued, the deque as it was when each of them was yielded;
\* pending, the id whose yield suspended it; res, "yielded", or "done" when
\* the deque ran out, or "raised"; and commits, what get_commit gives for the
\* commits of the store, which does not change while the generator runs.
iter_frame(store, oids) ==
    [op |-> "iter_commits_and_parents", res |-> "started", start |-> oids, oids |-> oids,
     visited |-> {}, seq |-> <<>>, queued |-> <<>>, pending |-> None,
     commits |-> [c \in {oid \in DOMAIN store : ~get_commit(store, oid).err} |->
                     get_commit(store, c)]]

\* lines 256-262: pop until an id is yielded or the deque is empty
RECURSIVE IterPop(_, _)
IterPop(g, q) ==
    IF q = <<>> THEN [g EXCEPT !.res = "done", !.oids = q, !.pending = None]
    ELSE IF ~Truthy(Head(q)) \/ Head(q) \in g.visited THEN IterPop(g, Tail(q))
    ELSE [g EXCEPT !.res = "yielded", !.oids = Tail(q), !.pending = Head(q),
                   !.visited = @ \cup {Head(q)}, !.seq = Append(@, Head(q)),
                   !.queued = Append(@, Tail(q))]

\* next(): lines 264-268 for the id yielded last, then the loop again
iter_next(g) ==
    IF g.pending = None THEN IterPop(g, g.oids)
    ELSE IF g.pending \notin DOMAIN g.commits THEN [g EXCEPT !.res = "raised"]
    ELSE IterPop(g, ParentsSplit(g.commits[g.pending].parents).first \o g.oids
                        \o ParentsSplit(g.commits[g.pending].parents).rest)

\* get_merge_base(oid1, oid2): [err, oid]; oid is None when the loop ends
\* without a return
get_merge_base(store, oid1, oid2) ==
    LET First(it2, common) ==
            IF common # {}
            THEN [err |-> FALSE,
                  oid |-> it2.seq[CHOOSE i \in common : \A j \in common : i <= j]]
            ELSE [err |-> it2.err, oid |-> None]
        Second(parents1, it2) ==
            First(it2, {i \in 1..Len(it2.seq) : it2.seq[i] \in parents1})
        Base(it1) == IF it1.err THEN [err |-> TRUE, oid |-> None]
                     ELSE Second(Range(it1.seq), iter_commits_and_parents(store, <<oid2>>))
    IN  Base(iter_commits_and_parents(store, <<oid1>>))

\* an ancestor test that follows first parents only
is_ancestor_first_parent(store, commit, maybe_ancestor) ==
    LET RECURSIVE Walk(_, _)
        Walk(oid, fuel) ==
            LET Step(c) == IF c.err \/ c.parents = <<>> \/ fuel = 0 THEN FALSE
                           ELSE Walk(c.parents[1], fuel - 1)
            IN  IF oid = maybe_ancestor THEN TRUE ELSE Step(get_commit(store, oid))
    IN  [err |-> FALSE, val |-> Walk(commit, Cardinality(DOMAIN store))]

\* an ancestor test with its arguments the other way round
is_ancestor_swapped(store, commit, maybe_ancestor) ==
    LET Among(it) == IF commit \in Range(it.seq) THEN [err |-> FALSE, val |-> TRUE]
                     ELSE [err |-> it.err, val |-> FALSE]
    IN  Among(iter_commits_and_parents(store, <<maybe_ancestor>>))

\* is_ancestor_of(commit, maybe_ancestor): [err, val]; the generator is read
\* up to the first match only
is_ancestor_of(store, commit, maybe_ancestor) ==
    LET Among(it) == IF maybe_ancestor \in Range(it.seq) THEN [err |-> FALSE, val |-> TRUE]
                     ELSE [err |-> it.err, val |-> FALSE]
    IN  Among(iter_commits_and_parents(store, <<commit>>))

\* iter_objects_in_tree(oid) with the visited set of iter_objects_in_commits:
\* [visited, err]; what it yields is what it adds to visited
RECURSIVE IterObjectsInTree(_, _, _)
RECURSIVE IterObjectsInEntries(_, _, _)
IterObjectsInEntries(store, entries, acc) ==
    LET e == Head(entries)
    IN  IF entries = <<>> \/ acc.err THEN acc
        ELSE IterObjectsInEntries(store, Tail(entries),
                 IF e.oid \in acc.visited THEN acc
                 ELSE IF e.type_ = TREE_T THEN IterObjectsInTree(store, e.oid, acc.visited)
                 ELSE [acc EXCEPT !.visited = @ \cup {e.oid}])

IterObjectsInTree(store, oid, visited) ==
    LET Entries(it) ==
            IterObjectsInEntries(store, it.entries,
                                 [visited |-> visited \cup {oid}, err |-> it.err])
    IN  Entries(iter_tree_entries(store, oid))

\* iter_objects_in_commits(oids), run to its end: [set, err], the set of the
\* ids it yields
RECURSIVE IterObjectsOfCommits(_, _, _)
IterObjectsOfCommits(store, commits, acc) ==
    LET oid == Head(commits)
        Rest(trees) ==
            IterObjectsOfCommits(store, Tail(commits),
                [set |-> acc.set \cup {oid} \cup trees.visited,
                 visited |-> trees.visited, err |-> trees.err])
        Visit(commit) ==
            IF commit.err THEN [acc EXCEPT !.set = @ \cup {oid}, !.err = TRUE]
            ELSE Rest(IF commit.tree \in acc.visited
                       THEN [visited |-> acc.visited, err |-> FALSE]
                       ELSE IterObjectsInTree(store, commit.tree, acc.visited))
    IN  IF commits = <<>> \/ acc.err THEN acc
        ELSE Visit(get_commit(store, oid))

iter_objects_in_commits(store, oids) ==
    LET Objects(it, acc) == [set |-> acc.set, err |-> acc.err \/ it.err]
        Yielded(it) ==
            Objects(it, IterObjectsOfCommits(store, it.seq,
                                             [set |-> {}, visited |-> {}, err |-> FALSE]))
    IN  Yielded(iter_commits_and_parents(store, oids))

-----------------------------------------------------------------------------
(* The operations of base.py, each on a repository r = [tab, obj, refs, index]: *)
(* the digest table, and the objects, refs and index of the store GIT_DIR      *)
(* names.  Each gives the repository after the call, with res, how the call    *)
(* ended ("raised" for an exception), and oid, the id it returns.              *)

Repo(tab, obj, rfs, idx) == [tab |-> tab, obj |-> obj, refs |-> rfs, index |-> idx]

Outcome(r, res, oid) ==
    [tab |-> r.tab, obj |-> r.obj, refs |-> r.refs, index |-> r.index, res |-> res, oid |-> oid]

Raised(r) == Outcome(r, "raised", None)

RefPath(a, b, name) == a \o "/" \o b \o "/" \o name

\* init(): HEAD is written, symbolic to refs/heads/master
init(r) ==
    LET Done(u) == Outcome([r EXCEPT !.refs = u.store], "ok", None)
    IN  Done(update_ref(r.refs, HEAD, RefValue(TRUE, RefPath(REFS, HEADS, MASTER)), TRUE))

\* the parents of a commit that records only HEAD, also while merging
CommitParentsHeadOnly(head, merge_head) == IF Truthy(head) THEN <<head>> ELSE <<>>

\* lines 134-139 of commit: HEAD, then MERGE_HEAD, each when it is set
CommitParents(head, merge_head) ==
    (IF Truthy(head) THEN <<head>> ELSE <<>>) \o (IF Truthy(merge_head) THEN <<merge_head>> ELSE <<>>)

\* commit(message)
commit(r, message) ==
    LET Moved(r3, oid, u) ==
            IF u.err THEN Raised(r3) ELSE Outcome([r3 EXCEPT !.refs = u.store], "ok", oid)
        Hashed(r2, h2) ==
            Moved([r2 EXCEPT !.tab = h2.tab, !.obj = h2.obj], h2.oid,
                  update_ref(r2.refs, HEAD, RefValue(FALSE, h2.oid), TRUE))
        Deleted(h, r1, parents, del) ==
            IF del.err THEN Raised(r1)
            ELSE Hashed([r1 EXCEPT !.refs = del.store],
                        hash_object(h, CommitText(h.oid, parents, message), COMMIT_T))
        Parents(h, r1, head, merge_head) ==
            IF head.err \/ merge_head.err THEN Raised(r1)
            ELSE Deleted(h, r1, CommitParents(head.val.value, merge_head.val.value),
                         IF Truthy(merge_head.val.value)
                         THEN delete_ref(r.refs, MERGE_HEAD, FALSE)
                         ELSE [store |-> r.refs, err |-> FALSE])
        Tree(h) ==
            IF h.err THEN Raised(r)
            ELSE Parents(h, [r EXCEPT !.tab = h.tab, !.obj = h.obj],
                         get_ref_internal(r.refs, HEAD, TRUE),
                         get_ref_internal(r.refs, MERGE_HEAD, TRUE))
    IN  Tree(write_tree(Ctx(r.tab, r.obj), r.index))

\* is_branch(branch)
is_branch(r, branch) == get_ref(r.refs, RefPath(REFS, HEADS, branch), TRUE).value # None

\* is_hex and len(name) == 40: the name is a hexdigest
IsSha1(name) == name \in HexIds

\* get_oid(name): [err, oid]
get_oid(r, name) ==
    LET n == IF name = "@" THEN HEAD ELSE name
        refs_to_try == <<n, REFS \o "/" \o n, RefPath(REFS, TAGS, n), RefPath(REFS, HEADS, n)>>
        Value(v) == [err |-> v.err, oid |-> v.val.value]
        Found(found) ==
            IF found # {}
            THEN Value(get_ref_internal(r.refs,
                           refs_to_try[CHOOSE i \in found : \A j \in found : i <= j], TRUE))
            ELSE IF IsSha1(n) THEN [err |-> FALSE, oid |-> n]
            ELSE [err |-> TRUE, oid |-> None]
    IN  Found({i \in 1..4 : Truthy(get_ref(r.refs, refs_to_try[i], FALSE).value)})

\* checkout(name)
checkout(r, name) ==
    LET Moved(r1, oid, u) ==
            IF u.err THEN Raised(r1) ELSE Outcome([r1 EXCEPT !.refs = u.store], "ok", oid)
        Branch(r1, oid, branch) ==
            IF branch.err THEN Raised(r1)
            ELSE Moved(r1, oid,
                       update_ref(r.refs, HEAD,
                                  IF branch.val.value # None
                                  THEN RefValue(TRUE, RefPath(REFS, HEADS, name))
                                  ELSE RefValue(FALSE, oid), FALSE))
        Index(oid, rt) ==
            IF rt.err THEN Raised(r)
            ELSE Branch([r EXCEPT !.index = rt.index], oid,
                        get_ref_internal(r.refs, RefPath(REFS, HEADS, name), TRUE))
        Tree(oid, c) == IF c.err THEN Raised(r) ELSE Index(oid, read_tree(r.obj, r.index, c.tree))
        Oid(oid) == IF oid.err THEN Raised(r) ELSE Tree(oid.oid, get_commit(r.obj, oid.oid))
    IN  Oid(get_oid(r, name))

\* a reset that also ends a merge in progress
reset_abort(r, oid) ==
    LET Moved(u) ==
            IF u.err THEN Raised(r)
            ELSE Outcome([r EXCEPT !.refs = [n \in DOMAIN u.store \ {MERGE_HEAD} |-> u.store[n]]],
                         "ok", None)
    IN  Moved(update_ref(r.refs, HEAD, RefValue(FALSE, oid), TRUE))

\* reset(oid)
reset(r, oid) ==
    LET Moved(u) == IF u.err THEN Raised(r) ELSE Outcome([r EXCEPT !.refs = u.store], "ok", None)
    IN  Moved(update_ref(r.refs, HEAD, RefValue(FALSE, oid), TRUE))

\* one path of a three-way merge: the side that changed it wins, ours when
\* both did
MergePath(o_base, o_HEAD, o_other) ==
    IF o_HEAD = o_other THEN o_HEAD
    ELSE IF o_HEAD = o_base THEN o_other
    ELSE o_HEAD

RECURSIVE MergeKeys(_, _, _, _, _)
MergeKeys(keys, t_base, t_HEAD, t_other, result) ==
    LET key == Head(keys)
        At(d) == IF key \in DictKeys(d) THEN DictGet(d, key) ELSE None
        Put(merged) == IF merged = None \/ key \in DictKeys(result) THEN result
                       ELSE DictSet(result, key, merged)
    IN  IF keys = <<>> THEN result
        ELSE MergeKeys(Tail(keys), t_base, t_HEAD, t_other,
                       Put(MergePath(At(t_base), At(t_HEAD), At(t_other))))

\* diff.merge_trees(t_base, t_HEAD, t_other): a mapping over the paths of the
\* three trees
merge_trees(t_base, t_HEAD, t_other) ==
    LET keys == [i \in 1..Len(t_base) |-> t_base[i].k]
                \o [i \in 1..Len(t_HEAD) |-> t_HEAD[i].k]
                \o [i \in 1..Len(t_other) |-> t_other[i].k]
    IN  MergeKeys(keys, t_base, t_HEAD, t_other, <<>>)

\* read_tree_merged(t_base, t_HEAD, t_other): [err, index]
read_tree_merged(store, idx, t_base, t_HEAD, t_other) ==
    LET Merged(b, h, o) ==
            IF b.err \/ h.err \/ o.err THEN [err |-> TRUE, index |-> idx]
            ELSE [err |-> FALSE, index |-> DictUpdate(<<>>, merge_trees(b.d, h.d, o.d))]
    IN  Merged(get_tree(store, t_base, <<>>), get_tree(store, t_HEAD, <<>>),
               get_tree(store, t_other, <<>>))

\* a merge base test that never finds a fast-forward
IsFastForwardNever(merge_base, head) == FALSE

\* line 176 of merge: merge_base == HEAD
IsFastForward(merge_base, head) == merge_base = head

\* merge(other)
merge(r, other) ==
    LET \* the fast-forward
        Forwarded(ff_tree, ff_ref) ==
            IF ff_tree.err THEN Raised(r)
            ELSE IF ff_ref.err THEN Raised([r EXCEPT !.index = ff_tree.index])
            ELSE Outcome([r EXCEPT !.index = ff_tree.index, !.refs = ff_ref.store],
                         "fast-forward", None)
        \* the merge
        Staged(r1, m_tree) ==
            IF m_tree.err THEN Raised(r1) ELSE Outcome([r1 EXCEPT !.index = m_tree.index], "merged", None)
        Trees(r1, c_base, c_HEAD, c_other) ==
            IF c_base.err \/ c_HEAD.err THEN Raised(r1)
            ELSE Staged(r1, read_tree_merged(r.obj, r.index, c_base.tree, c_HEAD.tree, c_other.tree))
        Marked(H, merge_base, c_other, m_ref) ==
            IF m_ref.err THEN Raised(r)
            ELSE Trees([r EXCEPT !.refs = m_ref.store],
                       get_commit(r.obj, merge_base.oid), get_commit(r.obj, H), c_other)
        Based(H, merge_base, c_other) ==
            IF merge_base.err \/ c_other.err THEN Raised(r)
            ELSE IF IsFastForward(merge_base.oid, H)
            THEN Forwarded(read_tree(r.obj, r.index, c_other.tree),
                           update_ref(r.refs, HEAD, RefValue(FALSE, other), TRUE))
            ELSE Marked(H, merge_base, c_other,
                        update_ref(r.refs, MERGE_HEAD, RefValue(FALSE, other), TRUE))
        FromHead(head) ==
            IF head.err \/ ~Truthy(head.val.value) THEN Raised(r)
            ELSE Based(head.val.value, get_merge_base(r.obj, other, head.val.value),
                       get_commit(r.obj, other))
    IN  FromHead(get_ref_internal(r.refs, HEAD, TRUE))

\* create_tag(name, oid)
create_tag(r, name, oid) ==
    LET Made(u) == IF u.err THEN Raised(r) ELSE Outcome([r EXCEPT !.refs = u.store], "ok", None)
    IN  Made(update_ref(r.refs, RefPath(REFS, TAGS, name), RefValue(FALSE, oid), TRUE))

\* a branch made as a pointer to master
create_branch_alias(r, name, oid) ==
    LET Made(u) == IF u.err THEN Raised(r) ELSE Outcome([r EXCEPT !.refs = u.store], "ok", None)
    IN  Made(update_ref(r.refs, RefPath(REFS, HEADS, name),
                        RefValue(TRUE, RefPath(REFS, HEADS, MASTER)), TRUE))

\* create_branch(name, oid)
create_branch(r, name, oid) ==
    LET Made(u) == IF u.err THEN Raised(r) ELSE Outcome([r EXCEPT !.refs = u.store], "ok", None)
    IN  Made(update_ref(r.refs, RefPath(REFS, HEADS, name), RefValue(FALSE, oid), TRUE))

-----------------------------------------------------------------------------
(* remote.py *)

BranchNames == {MASTER, "dev"}
TagNames == {"v1"}
ShortNames == BranchNames \cup TagNames

\* what may follow a prefix in the name of a ref
NameTails ==
    {Empty} \cup {"/" \o n : n \in ShortNames}
            \cup {"/" \o ns \o "/" \o n : ns \in {HEADS, TAGS, REMOTE}, n \in ShortNames}

\* refname.startswith(prefix), for the names of refs
NameStartsWith(refname, prefix) == \E t \in NameTails : refname = prefix \o t

\* os.path.relpath(refname, base), for a refname under base
RelPath(refname, base) == CHOOSE n \in ShortNames : refname = base \o "/" \o n

REMOTE_REFS_BASE == REFS \o "/" \o HEADS
\* a base that puts the tracking refs among the local branches
LOCAL_REFS_BASE_heads == REFS \o "/" \o HEADS

LOCAL_REFS_BASE == REFS \o "/" \o REMOTE

\* iter_refs(prefix, deref) as the dict {refname: ref.value}: HEAD, MERGE_HEAD
\* and the files under refs/, those that start with the prefix and have a value
iter_refs(store, prefix, deref) ==
    LET walked == {n \in DOMAIN store : NameStartsWith(n, REFS)}
        names == {n \in {HEAD, MERGE_HEAD} \cup walked :
                     /\ prefix = Empty \/ NameStartsWith(n, prefix)
                     /\ Truthy(get_ref(store, n, deref).value)}
    IN  [n \in names |-> get_ref(store, n, deref).value]

\* _get_remote_refs(remote_path, prefix)
get_remote_refs(rfs, remote_path, prefix) == iter_refs(rfs[remote_path], prefix, TRUE)

RECURSIVE SetToSeq(_)
SetToSeq(S) == IF S = {} THEN <<>> ELSE LET x == CHOOSE x \in S : TRUE IN <<x>> \o SetToSeq(S \ {x})

\* fetch(remote_path): the refs of the local store after it
RECURSIVE FetchUpdate(_, _, _)
FetchUpdate(store, names, remote_refs) ==
    IF names = <<>> THEN store
    ELSE LET refname == RelPath(Head(names), REMOTE_REFS_BASE)
             u == update_ref(store, LOCAL_REFS_BASE \o "/" \o refname,
                             RefValue(FALSE, remote_refs[Head(names)]), TRUE)
         IN  FetchUpdate(u.store, Tail(names), remote_refs)

fetch(rfs, remote_path) ==
    LET Update(remote_refs) ==
            FetchUpdate(rfs[Local], SetToSeq(DOMAIN remote_refs), remote_refs)
    IN  Update(get_remote_refs(rfs, remote_path, REMOTE_REFS_BASE))

\* fetch_object_if_missing(oid, remote_git_dir): [objs, err]; an object the
\* local store has is left alone, another one is copied from the store of the
\* remote, and the copy raises when the remote has no such object
fetch_object_if_missing(objs, oid, remote_git_dir) ==
    IF object_exists(objs[Local], oid) THEN [objs |-> objs, err |-> FALSE]
    ELSE IF ~object_exists(objs[remote_git_dir], oid) THEN [objs |-> objs, err |-> TRUE]
    ELSE [objs |-> [objs EXCEPT ![Local] = WriteFile(@, oid, objs[remote_git_dir][oid])],
          err |-> FALSE]

\* the store push_object copies into; line 135 of data.py: remote_git_dir = '/.ugit', whatever remote_path is
PushTarget(remote_path) == Root

\* push_object(oid, remote_git_dir) for every oid of a set: [objs, err]; the
\* copy raises when the local store has no such object
push_objects(objs, oids, remote_path) ==
    IF \E oid \in oids : ~object_exists(objs[Local], oid) THEN [objs |-> objs, err |-> TRUE]
    ELSE [objs |-> [objs EXCEPT ![PushTarget(remote_path)] =
                       [n \in DOMAIN @ \cup oids |-> IF n \in oids THEN objs[Local][n] ELSE @[n]]],
          err |-> FALSE]

\* line 36 of push: filter(data.object_exists, remote_refs), over the keys of
\* the dict, which are the names of the remote's refs, in the local store
known_remote_refs(objs, remote_refs) ==
    SetToSeq({n \in DOMAIN remote_refs : object_exists(objs[Local], n)})

\* push(remote_path, refname): [objs, refs, res, pushed]; pushed is
\* objects_to_push
push(objs, rfs, remote_path, refname) ==
    LET out(o, r, res, pushed) == [objs |-> o, refs |-> r, res |-> res, pushed |-> pushed]
        Updated(objects_to_push, copied, u) ==
            IF copied.err \/ u.err THEN out(objs, rfs, "raised", {})
            ELSE out(copied.objs, [rfs EXCEPT ![remote_path] = u.store], "ok", objects_to_push)
        Copied(local_ref, objects_to_push) ==
            Updated(objects_to_push, push_objects(objs, objects_to_push, remote_path),
                    update_ref(rfs[remote_path], refname, RefValue(FALSE, local_ref), TRUE))
        Known(local_ref, remote_objects, local_objects) ==
            IF remote_objects.err \/ local_objects.err THEN out(objs, rfs, "raised", {})
            ELSE Copied(local_ref, local_objects.set \ remote_objects.set)
        Checked(remote_refs, remote_ref, local_ref, anc) ==
            IF ~Truthy(local_ref) THEN out(objs, rfs, "nothing-to-push", {})
            ELSE IF Truthy(remote_ref) /\ anc.err THEN out(objs, rfs, "raised", {})
            ELSE IF Truthy(remote_ref) /\ ~anc.val THEN out(objs, rfs, "non-fast-forward", {})
            ELSE Known(local_ref,
                       iter_objects_in_commits(objs[Local], known_remote_refs(objs, remote_refs)),
                       iter_objects_in_commits(objs[Local], <<local_ref>>))
        Refs(remote_refs, remote_ref, local_ref) ==
            Checked(remote_refs, remote_ref, local_ref,
                    is_ancestor_of(objs[Local], local_ref, remote_ref))
        Listed(remote_refs) ==
            Refs(remote_refs,
                 IF refname \in DOMAIN remote_refs THEN remote_refs[refname] ELSE None,
                 get_ref(rfs[Local], refname, TRUE).value)
    IN  Listed(get_remote_refs(rfs, remote_path, Empty))

-----------------------------------------------------------------------------
(* The tree codec on its own: write_tree and read_tree of a staged mapping *)

\* the paths staged: plain and nested names, a file that is also a directory
\* ("a" with "a/b", "a" with "a/"), the names "." and "..", a space and a line
\* feed in a name
TreePaths ==
    { <<"a">>, <<"b">>, <<"a", "/", "a">>, <<"a", "/", "b">>, <<"b", "/", "a">>,
      <<"a", "/", "a", "/", "b">>, <<"a", "/">>, <<".", "/", "a">>, <<".", ".">>,
      <<"a", " ", "b">>, <<"a", "\n", "b">> }

\* the two blobs staged, hashed in this order before anything else
BlobX == <<"x">>
BlobY == <<"y">>
StagedBlobs == hash_object(hash_object(Ctx(<<>>, <<>>), BlobX, BLOB_T), BlobY, BLOB_T)
BlobIds == DOMAIN StagedBlobs.obj

\* the dicts of at most n items over the given keys and values
RECURSIVE DictsUpTo(_, _, _)
DictsUpTo(n, keys, values) ==
    LET Longer(shorter) ==
            shorter \cup
            {Append(d, [k |-> key, v |-> value]) :
                d \in {x \in shorter : Len(x) = n - 1}, key \in keys, value \in values}
    IN  IF n = 0 THEN {<<>>} ELSE Longer(DictsUpTo(n - 1, keys, values))

TreeInputs == {d \in DictsUpTo(MaxEntries, TreePaths, BlobIds) : Cardinality(DictKeys(d)) = Len(d)}

\* the orders in which the items of a dict may be iterated
Orders(d) == {q \in [1..Len(d) -> Range(d)] : Range(q) = Range(d)}

NoStores == [s \in Stores |-> <<>>]

TreeInit ==
    /\ sha1 = StagedBlobs.tab
    /\ objects = [NoStores EXCEPT ![Local] = StagedBlobs.obj]
    /\ refs = NoStores
    /\ \E m \in TreeInputs : index = [NoStores EXCEPT ![Local] = m]
    /\ last = [op |-> "stage", res |-> "ok", m |-> <<>>, oid |-> None]

\* write_tree() of the staged mapping
WriteTreeOp ==
    /\ last.op # "write_tree"
    /\ \E h \in {write_tree(Ctx(sha1, objects[Local]), index[Local])} :
          /\ sha1' = h.tab
          /\ objects' = [objects EXCEPT ![Local] = h.obj]
          /\ last' = [op |-> "write_tree", res |-> IF h.err THEN "raised" ELSE "ok",
                      m |-> index[Local], oid |-> h.oid]
    /\ UNCHANGED <<refs, index>>

\* read_tree(oid) of the tree just written
ReadTreeOp ==
    /\ last.op = "write_tree" /\ last.res = "ok"
    /\ \E r \in {read_tree(objects[Local], index[Local], last.oid)} :
          /\ index' = [index EXCEPT ![Local] = r.index]
          /\ last' = [last EXCEPT !.op = "read_tree", !.res = IF r.err THEN "raised" ELSE "ok"]
    /\ UNCHANGED <<sha1, objects, refs>>

\* the staged mapping iterated in another order
ReorderOp ==
    /\ last.op \in {"stage", "read_tree"}
    /\ \E q \in Orders(index[Local]) :
          /\ q # index[Local]
          /\ index' = [index EXCEPT ![Local] = q]
    /\ last' = [last EXCEPT !.op = "stage"]
    /\ UNCHANGED <<sha1, objects, refs>>

TreeNext == WriteTreeOp \/ ReadTreeOp \/ ReorderOp

SpecTree == TreeInit /\ [][TreeNext]_vars

\* the components of a path
Components(path) == Split(path, SLASH)

IsProperPrefix(s, t) == Len(s) < Len(t) /\ SubSeq(t, 1, Len(s)) = s

\* a mapping a directory tree can hold: no component is "." or "..", no name
\* holds a line break, and no path is a directory of another path
TreeShaped(m) ==
    /\ \A key \in DictKeys(m) :
          /\ LF \notin Range(key)
          /\ \A i \in 1..Len(Components(key)) : Components(key)[i] \notin {<<".">>, <<".", ".">>}
    /\ \A p, q \in DictKeys(m) : ~IsProperPrefix(Components(p), Components(q))

\* write_tree of m gave the root last.oid: every order of m gives that root
SameRootInEveryOrder(m) ==
    \A q \in Orders(m) :
        LET h == write_tree(Ctx(sha1, objects[Local]), q)
        IN  ~h.err /\ h.oid = last.oid

\* C10 as stated: for every flat mapping, write_tree returns, gives the same
\* root id for every iteration order of the mapping, and reading the tree back
\* gives the mapping again.
C10_AnyMappingRoundTrips ==
    /\ last.op = "write_tree" => last.res = "ok" /\ SameRootInEveryOrder(last.m)
    /\ last.op = "read_tree" => last.res = "ok" /\ DictItems(index[Local]) = DictItems(last.m)

\* C10, amended: for every flat mapping that a directory tree can hold,
\* write_tree gives the same root id for every iteration order of the mapping,
\* and get_tree of that root is the mapping again.
C10_TreeRoundTrip ==
    /\ (last.op = "write_tree" /\ TreeShaped(last.m)) =>
          last.res = "ok" /\ SameRootInEveryOrder(last.m)
    /\ (last.op = "read_tree" /\ TreeShaped(last.m)) =>
          last.res = "ok" /\ DictItems(index[Local]) = DictItems(last.m)

\* a nested mapping of two items was written and read back
C10_Witness ==
    /\ last.op = "read_tree" /\ last.res = "ok"
    /\ TreeShaped(last.m) /\ Len(last.m) = 2
    /\ \E key \in DictKeys(last.m) : Len(Components(key)) > 1

-----------------------------------------------------------------------------
(* The repository at work: the operations of base.py in the local store *)

Messages == {"m1", "m2"}
CheckoutNames == {MASTER}

\* the index after two files were staged: a -> x, b/a -> y
StagedIndex ==
    <<[k |-> <<"a">>, v |-> Sha1Hex(StagedBlobs.tab, <<BLOB_T, NUL>> \o BlobX)],
      [k |-> <<"b", "/", "a">>, v |-> Sha1Hex(StagedBlobs.tab, <<BLOB_T, NUL>> \o BlobY)]>>

IsCommit(bytes) == bytes[1] = COMMIT_T

\* the commit ids of a store
Commits(store) == {oid \in DOMAIN store : IsCommit(store[oid])}

NumCommits(tab) == Cardinality({i \in 1..Len(tab) : IsCommit(tab[i])})

LocalRepo == Repo(sha1, objects[Local], refs[Local], index[Local])

\* the local store and the digest table after an operation of base.py
Becomes(o) ==
    /\ sha1' = o.tab
    /\ objects' = [objects EXCEPT ![Local] = o.obj]
    /\ refs' = [refs EXCEPT ![Local] = o.refs]
    /\ index' = [index EXCEPT ![Local] = o.index]

\* every store after init(); two files are staged in the local one
Init ==
    /\ sha1 = StagedBlobs.tab
    /\ objects = [NoStores EXCEPT ![Local] = StagedBlobs.obj]
    /\ refs = [s \in Stores |-> init(Repo(<<>>, <<>>, <<>>, <<>>)).refs]
    /\ index = [NoStores EXCEPT ![Local] = StagedIndex]
    /\ last = [op |-> "init", res |-> "ok"]

\* commit(message); last keeps the new id and the HEAD the commit was made on
Commit(message) ==
    \E o \in {commit(LocalRepo, message)} :
        /\ NumCommits(o.tab) <= MaxCommits
        /\ Becomes(o)
        /\ last' = [op |-> "commit", res |-> o.res, oid |-> o.oid,
                    head |-> get_ref(refs[Local], HEAD, TRUE).value]

Checkout(name) ==
    \E o \in {checkout(LocalRepo, name)} :
        /\ Becomes(o)
        /\ last' = [op |-> "checkout", res |-> o.res, name |-> name]

Reset(oid) ==
    \E o \in {reset(LocalRepo, oid)} :
        /\ Becomes(o)
        /\ last' = [op |-> "reset", res |-> o.res, oid |-> oid]

\* merge(other); last keeps other and the HEAD it was merged into
Merge(other) ==
    \E o \in {merge(LocalRepo, other)} :
        /\ Becomes(o)
        /\ last' = [op |-> "merge", res |-> o.res, other |-> other,
                    head |-> get_ref(refs[Local], HEAD, TRUE).value]

CreateBranch(name, oid) ==
    \E o \in {create_branch(LocalRepo, name, oid)} :
        /\ Becomes(o)
        /\ last' = [op |-> "create_branch", res |-> o.res, name |-> name, oid |-> oid]

CreateTag(name, oid) ==
    \E o \in {create_tag(LocalRepo, name, oid)} :
        /\ Becomes(o)
        /\ last' = [op |-> "create_tag", res |-> o.res, name |-> name, oid |-> oid]

Next ==
    \/ \E message \in Messages : Commit(message)
    \/ \E name \in CheckoutNames \cup Commits(objects[Local]) : Checkout(name)
    \/ \E oid \in Commits(objects[Local]) : Reset(oid)
    \/ \E other \in Commits(objects[Local]) : Merge(other)

Spec == Init /\ [][Next]_vars

\* the commits reachable from the commits of S over parent edges, S included
RECURSIVE Closure(_, _)
Closure(store, S) ==
    LET T == S \cup UNION {Range(get_commit(store, c).parents) : c \in S}
    IN  IF T = S THEN S ELSE Closure(store, T)

Ancestors(store, c) == Closure(store, {c})

\* what a ref file holds, read as written: a pointer to another ref, or an id
PointsTo(store, n, t) == n \in DOMAIN store /\ store[n] = <<"ref", ":", " ", t>>
HoldsId(store, n, v) == n \in DOMAIN store /\ store[n] = <<v>>

\* the value a ref resolves to in the local store
Resolved(rfs, n) == get_ref(rfs[Local], n, TRUE).value

C5_MergeCommit ==
    [][ (last'.op = "commit" /\ last'.res = "ok")
        => LET head == Resolved(refs, HEAD)
               merge_head == Resolved(refs, MERGE_HEAD)
               new == get_commit(objects'[Local], last'.oid)
           IN  /\ ~new.err
               /\ Resolved(refs', HEAD) = last'.oid
               /\ merge_head # None =>
                     /\ new.parents = <<head, merge_head>>
                     /\ MERGE_HEAD \notin DOMAIN refs'[Local]
               /\ merge_head = None =>
                     new.parents = IF head = None THEN <<>> ELSE <<head>> ]_vars

\* a merge commit was made: two parents, and MERGE_HEAD is gone
C5_Witness ==
    /\ last.op = "commit" /\ last.res = "ok"
    /\ Len(get_commit(objects[Local], last.oid).parents) = 2
    /\ get_commit(objects[Local], last.oid).parents[1] = last.head
    /\ MERGE_HEAD \notin DOMAIN refs[Local]

-----------------------------------------------------------------------------
(* Synchronisation: fetch and push between the local store and the remote one *)

RemotePaths == {Remote}
PushRefs == {RefPath(REFS, HEADS, MASTER)}

Fetch(remote_path) ==
    /\ refs' = [refs EXCEPT ![Local] = fetch(refs, remote_path)]
    /\ last' = [op |-> "fetch", res |-> "ok", remote_path |-> remote_path]
    /\ UNCHANGED <<sha1, objects, index>>

\* push(remote_path, refname); last keeps objects_to_push as pushed, and again,
\* whether the operation before it was a successful push of the same ref to
\* the same remote
Push(remote_path, refname) ==
    \E o \in {push(objects, refs, remote_path, refname)} :
        /\ objects' = o.objs
        /\ refs' = o.refs
        /\ last' = [op |-> "push", res |-> o.res, remote_path |-> remote_path,
                    refname |-> refname, pushed |-> o.pushed,
                    again |-> /\ last.op = "push" /\ last.res = "ok"
                              /\ last.remote_path = remote_path /\ last.refname = refname]
        /\ UNCHANGED <<sha1, index>>

SyncNext ==
    \/ \E message \in Messages : Commit(message)
    \/ \E oid \in Commits(objects[Local]) : Reset(oid)
    \/ \E remote_path \in RemotePaths : Fetch(remote_path)
    \/ \E remote_path \in RemotePaths, refname \in PushRefs : Push(remote_path, refname)

SpecSync == Init /\ [][SyncNext]_vars

\* everything a commit needs: its ancestors, their trees, and the sub-trees and
\* blobs of those
RECURSIVE TreeClosure(_, _)
TreeClosure(store, oid) ==
    LET entries == iter_tree_entries(store, oid).entries
    IN  {oid} \cup UNION {IF entries[i].type_ = TREE_T THEN TreeClosure(store, entries[i].oid)
                          ELSE {entries[i].oid} : i \in 1..Len(entries)}

ObjectClosure(store, c) ==
    Ancestors(store, c) \cup UNION {TreeClosure(store, get_commit(store, a).tree) :
                                      a \in Ancestors(store, c)}

\* C1: when the remote has a value R for refname and the local value is no
\* descendant of R (R is not among its ancestors, R itself included), push
\* fails: the refs of the remote are as they were and no object is copied into
\* any store.
C1_NonForcePush ==
    [][ (/\ last'.op = "push"
         /\ Truthy(get_ref(refs[last'.remote_path], last'.refname, TRUE).value)
         /\ get_ref(refs[last'.remote_path], last'.refname, TRUE).value
               \notin Ancestors(objects[Local], Resolved(refs, last'.refname)))
        => /\ last'.res \in {"non-fast-forward", "nothing-to-push"}
           /\ Truthy(Resolved(refs, last'.refname)) => last'.res = "non-fast-forward"
           /\ refs' = refs
           /\ objects' = objects ]_vars

\* a push was refused: the remote's ref is set and is no ancestor of the local one
C1_Witness ==
    /\ last.op = "push" /\ last.res = "non-fast-forward"
    /\ Truthy(get_ref(refs[last.remote_path], last.refname, TRUE).value)
    /\ Truthy(Resolved(refs, last.refname))
    /\ get_ref(refs[last.remote_path], last.refname, TRUE).value
          \notin Ancestors(objects[Local], Resolved(refs, last.refname))

\* C2: after a successful push the remote's refname holds the local value, and
\* every object reachable from that commit is in the store of the remote the
\* caller named.
C2_PushCompleteness ==
    (last.op = "push" /\ last.res = "ok") =>
        /\ get_ref(refs[last.remote_path], last.refname, TRUE).value = Resolved(refs, last.refname)
        /\ ObjectClosure(objects[Local], Resolved(refs, last.refname)) \subseteq DOMAIN objects[last.remote_path]

\* C3: a successful push repeated at once copies no object and leaves the
\* remote's ref at the value the first push gave it.
C3_PushIdempotence ==
    (last.op = "push" /\ last.again) =>
        /\ last.res = "ok"
        /\ last.pushed = {}
        /\ get_ref(refs[last.remote_path], last.refname, TRUE).value = Resolved(refs, last.refname)

-----------------------------------------------------------------------------
(* The commit graph on its own: commits are made on any HEAD and MERGE_HEAD *)
(* that merge can leave, and the graph algorithms are asked about the graph  *)

\* the refs of a repository whose HEAD resolves to head and whose MERGE_HEAD
\* is merge_head, None for an unset one
RefsAt(head, merge_head) ==
    LET Merging(r1) ==
            IF Truthy(merge_head)
            THEN update_ref(r1, MERGE_HEAD, RefValue(FALSE, merge_head), TRUE).store
            ELSE r1
        At(r0) ==
            Merging(IF Truthy(head) THEN update_ref(r0, HEAD, RefValue(FALSE, head), TRUE).store
                    ELSE r0)
    IN  At(init(Repo(<<>>, <<>>, <<>>, <<>>)).refs)

\* merge(merge_head) on HEAD = head sets MERGE_HEAD: merge_head is a commit and
\* the merge is no fast-forward
MergeLeaves(store, head, merge_head) ==
    /\ Truthy(head)
    /\ ~get_commit(store, merge_head).err
    /\ ~IsFastForward(get_merge_base(store, merge_head, head).oid, head)

\* nothing was asked of the graph yet: it is built first and asked then
Unasked == last.op \in {"init", "commit"}

\* commit(message) in a repository over the objects made so far
GraphCommit(head, merge_head, message) ==
    /\ Unasked
    /\ merge_head # None => MergeLeaves(objects[Local], head, merge_head)
    /\ \E o \in {commit(Repo(sha1, objects[Local], RefsAt(head, merge_head), StagedIndex),
                        message)} :
          /\ NumCommits(o.tab) <= MaxDagCommits
          /\ o.res = "ok"
          /\ sha1' = o.tab
          /\ objects' = [objects EXCEPT ![Local] = o.obj]
          /\ last' = [op |-> "commit", res |-> o.res, oid |-> o.oid, head |-> head]
    /\ UNCHANGED <<refs, index>>

GetMergeBase(oid1, oid2) ==
    /\ Unasked
    /\ \E r \in {get_merge_base(objects[Local], oid1, oid2)} :
          last' = [op |-> "get_merge_base", res |-> IF r.err THEN "raised" ELSE "ok",
                   oid1 |-> oid1, oid2 |-> oid2, base |-> r.oid]
    /\ UNCHANGED <<sha1, objects, refs, index>>

IsAncestorOf(oid, maybe_ancestor) ==
    /\ Unasked
    /\ \E r \in {is_ancestor_of(objects[Local], oid, maybe_ancestor)} :
          last' = [op |-> "is_ancestor_of", res |-> IF r.err THEN "raised" ELSE "ok",
                   oid |-> oid, maybe_ancestor |-> maybe_ancestor, val |-> r.val]
    /\ UNCHANGED <<sha1, objects, refs, index>>

GraphNext ==
    \/ \E head, merge_head \in Commits(objects[Local]) \cup {None}, message \in Messages :
          GraphCommit(head, merge_head, message)
    \/ \E oid1, oid2 \in Commits(objects[Local]) : GetMergeBase(oid1, oid2)
    \/ \E oid, maybe_ancestor \in Commits(objects[Local]) : IsAncestorOf(oid, maybe_ancestor)

SpecGraph == Init /\ [][GraphNext]_vars

CommonAncestors(store, oid1, oid2) == Ancestors(store, oid1) \cap Ancestors(store, oid2)

\* C6: get_merge_base(oid1, oid2) is a lowest common ancestor: a common
\* ancestor of the two of which no other common ancestor is a strict
\* descendant; it is None exactly when the two have no common ancestor.
C6_LowestCommonAncestor ==
    last.op = "get_merge_base" =>
        LET common == CommonAncestors(objects[Local], last.oid1, last.oid2)
        IN  /\ last.res = "ok"
            /\ (last.base = None) = (common = {})
            /\ last.base # None =>
                  /\ last.base \in common
                  /\ \A c \in common :
                        c # last.base => last.base \notin Ancestors(objects[Local], c)

\* C7: is_ancestor_of(commit, maybe_ancestor) is true exactly when
\* maybe_ancestor is reachable from commit over zero or more parent edges, of
\* any parent; so it is true of a commit and itself and of a commit and its
\* parent, and false of a parent and its child.
C7_AncestorClosure ==
    last.op = "is_ancestor_of" =>
        LET parents(c) == Range(get_commit(objects[Local], c).parents)
        IN  /\ last.res = "ok"
            /\ last.val = (last.maybe_ancestor \in Ancestors(objects[Local], last.oid))
            /\ last.oid = last.maybe_ancestor => last.val
            /\ last.maybe_ancestor \in parents(last.oid) => last.val
            /\ last.oid \in parents(last.maybe_ancestor) => ~last.val

\* the second parent of a merge commit, itself no first-parent ancestor of it,
\* was found to be its ancestor
C7_Witness ==
    /\ last.op = "is_ancestor_of" /\ last.val
    /\ Len(get_commit(objects[Local], last.oid).parents) = 2
    /\ last.maybe_ancestor = get_commit(objects[Local], last.oid).parents[2]
    /\ last.maybe_ancestor
          \notin Ancestors(objects[Local], get_commit(objects[Local], last.oid).parents[1])

-----------------------------------------------------------------------------
(* The ref store on its own: refs are written, deleted and read under any   *)
(* name, so that symbolic chains of any shape arise, and commit and reset   *)
(* move what HEAD resolves to                                               *)

RefNames == {HEAD, RefPath(REFS, HEADS, MASTER), RefPath(REFS, HEADS, "dev")}

RefMessages == {"m1"}

\* the values written: a pointer to any of the names, or the id of a commit
RefValues(store) ==
    {RefValue(TRUE, n) : n \in RefNames} \cup {RefValue(FALSE, v) : v \in Commits(store)}

UpdateRef(ref, value, deref) ==
    /\ \E u \in {update_ref(refs[Local], ref, value, deref)} :
          /\ refs' = [refs EXCEPT ![Local] = u.store]
          /\ last' = [op |-> "update_ref", res |-> IF u.err THEN "raised" ELSE "ok",
                      ref |-> ref, value |-> value, deref |-> deref]
    /\ UNCHANGED <<sha1, objects, index>>

DeleteRef(ref, deref) ==
    /\ \E d \in {delete_ref(refs[Local], ref, deref)} :
          /\ refs' = [refs EXCEPT ![Local] = d.store]
          /\ last' = [op |-> "delete_ref", res |-> IF d.err THEN "raised" ELSE "ok",
                      ref |-> ref, deref |-> deref]
    /\ UNCHANGED <<sha1, objects, index>>

GetRef(ref, deref) ==
    /\ \E r \in {get_ref_internal(refs[Local], ref, deref)} :
          last' = [op |-> "get_ref", res |-> IF r.err THEN "raised" ELSE "ok",
                   ref |-> ref, value |-> r.val, deref |-> deref]
    /\ UNCHANGED <<sha1, objects, refs, index>>

\* commit(message), while the commits are few
RefCommit(message) ==
    /\ NumCommits(commit(LocalRepo, message).tab) <= MaxRefCommits
    /\ Commit(message)

RefNext ==
    \/ \E ref \in RefNames, value \in RefValues(objects[Local]), deref \in BOOLEAN :
          UpdateRef(ref, value, deref)
    \/ \E ref \in RefNames, deref \in BOOLEAN : DeleteRef(ref, deref)
    \/ \E ref \in RefNames, deref \in BOOLEAN : GetRef(ref, deref)
    \/ \E message \in RefMessages : RefCommit(message)
    \/ \E oid \in Commits(objects[Local]) : Reset(oid)

SpecRef == Init /\ [][RefNext]_vars

\* the chains of refs from name: every ref but the last points to the next one,
\* and the last points nowhere: it holds an id or is missing. There is one when
\* the links from name do not run in a circle, and no other.
Chains(store, name) ==
    {c \in UNION {[1..k -> RefNames] : k \in 1..Cardinality(RefNames)} :
        /\ c[1] = name
        /\ \A i \in 1..(Len(c) - 1) : PointsTo(store, c[i], c[i + 1])
        /\ \A t \in RefNames : ~PointsTo(store, c[Len(c)], t)}

\* what the last ref of a chain holds, None for a missing one
EndValue(store, c) ==
    IF c[Len(c)] \in DOMAIN store THEN store[c[Len(c)]][1] ELSE None

\* the file of ref n holds the value, as update_ref writes it
Written(store, n, value) ==
    IF value.symbolic THEN PointsTo(store, n, value.value) ELSE HoldsId(store, n, value.value)

\* the two stores of refs differ in the file of n at most
SameBut(store1, store2, n) ==
    /\ DOMAIN store1 \ {n} = DOMAIN store2 \ {n}
    /\ \A m \in DOMAIN store1 \ {n} : store1[m] = store2[m]

\* C8: along a chain of symbolic refs from name that does not run in a circle,
\* get_ref(name, deref=True) is the value of the last ref of the chain, a
\* direct id or None for a missing ref, and get_ref(name, deref=False) is
\* name's own value: symbolic and naming the next ref, whatever the refs
\* further down the chain hold.
C8_SymbolicResolution ==
    last.op = "get_ref" =>
        \A c \in Chains(refs[Local], last.ref) :
            /\ last.res = "ok"
            /\ last.deref => last.value = RefValue(FALSE, EndValue(refs[Local], c))
            /\ (~last.deref /\ Len(c) > 1) => last.value = RefValue(TRUE, c[2])
            /\ (~last.deref /\ Len(c) = 1) => last.value = RefValue(FALSE, EndValue(refs[Local], c))

\* a ref was resolved over two links to the id of a commit
C8_Witness ==
    /\ last.op = "get_ref" /\ last.deref /\ last.res = "ok"
    /\ \E c \in Chains(refs[Local], last.ref) : Len(c) = 3
    /\ last.value.value \in Commits(objects[Local])

\* C9: update_ref(name, value, deref=True) writes the last ref of name's chain
\* and no other file; update_ref(name, value, deref=False) writes name itself
\* and no other file; so a commit or a reset made while HEAD points to a branch
\* that is no pointer itself moves the branch and leaves HEAD pointing to it.
C9_UpdateRefTarget ==
    [][ /\ (last'.op = "update_ref" /\ last'.res = "ok" /\ last'.deref) =>
              \A c \in Chains(refs[Local], last'.ref) :
                  /\ SameBut(refs[Local], refs'[Local], c[Len(c)])
                  /\ Written(refs'[Local], c[Len(c)], last'.value)
        /\ (last'.op = "update_ref" /\ last'.res = "ok" /\ ~last'.deref) =>
              /\ SameBut(refs[Local], refs'[Local], last'.ref)
              /\ Written(refs'[Local], last'.ref, last'.value)
        /\ (last'.op \in {"commit", "reset"} /\ last'.res = "ok") =>
              \A c \in Chains(refs[Local], HEAD) :
                  Len(c) = 2 =>
                      /\ PointsTo(refs'[Local], HEAD, c[2])
                      /\ HoldsId(refs'[Local], c[2], last'.oid) ]_vars

\* a ref was written through two links: the last ref of the chain holds the id
\* written
C9_Witness ==
    /\ last.op = "update_ref" /\ last.res = "ok" /\ last.deref /\ ~last.value.symbolic
    /\ \E c \in Chains(refs[Local], last.ref) :
          Len(c) = 3 /\ HoldsId(refs[Local], c[3], last.value.value)

-----------------------------------------------------------------------------
(* Branches, tags and remotes: every operation of base.py and remote.py on   *)
(* the local store, with a branch and a tag that share a short name          *)

\* the short name given to create_branch and to create_tag
OpsBranchNames == {"dev"}
OpsTagNames == {"dev"}

\* the names given to checkout: a branch, a name that may be a branch, a tag
\* or both, and "@"; the ids of the commits are given too
OpsCheckoutNames == {MASTER, "dev", "@"}

OpsPushRefs == {RefPath(REFS, HEADS, n) : n \in BranchNames}

\* commit(message), while the commits are few
OpsCommit(message) ==
    /\ NumCommits(commit(LocalRepo, message).tab) <= MaxOpsCommits
    /\ Commit(message)

OpsNext ==
    \/ \E message \in RefMessages : OpsCommit(message)
    \/ \E name \in OpsCheckoutNames \cup Commits(objects[Local]) : Checkout(name)
    \/ \E oid \in Commits(objects[Local]) : Reset(oid)
    \/ \E other \in Commits(objects[Local]) : Merge(other)
    \/ \E name \in OpsBranchNames, oid \in Commits(objects[Local]) : CreateBranch(name, oid)
    \/ \E name \in OpsTagNames, oid \in Commits(objects[Local]) : CreateTag(name, oid)
    \/ \E remote_path \in RemotePaths : Fetch(remote_path)
    \/ \E remote_path \in RemotePaths, refname \in OpsPushRefs : Push(remote_path, refname)

SpecOps == Init /\ [][OpsNext]_vars

\* the file of the branch with this short name
BranchRef(name) == RefPath(REFS, HEADS, name)
TagRef(name) == RefPath(REFS, TAGS, name)

\* C11: after a successful checkout(name), HEAD itself points to
\* refs/heads/<name> when that branch exists, and holds the id that name
\* resolved to otherwise; no other ref file of the local store is created,
\* changed or removed, whatever HEAD pointed to before, and the refs of the
\* other stores are as they were.
C11_CheckoutRepointsHead ==
    [][ (last'.op = "checkout" /\ last'.res = "ok")
        => /\ BranchRef(last'.name) \in DOMAIN refs[Local] =>
                 PointsTo(refs'[Local], HEAD, BranchRef(last'.name))
           /\ BranchRef(last'.name) \notin DOMAIN refs[Local] =>
                 HoldsId(refs'[Local], HEAD, get_oid(LocalRepo, last'.name).oid)
           /\ SameBut(refs[Local], refs'[Local], HEAD)
           /\ \A s \in Stores \ {Local} : refs'[s] = refs[s] ]_vars

\* a branch was checked out while master and a tag exist: HEAD points to the
\* branch
C11_Witness ==
    /\ last.op = "checkout" /\ last.res = "ok" /\ last.name = "dev"
    /\ PointsTo(refs[Local], HEAD, BranchRef("dev"))
    /\ BranchRef(MASTER) \in DOMAIN refs[Local]
    /\ TagRef("dev") \in DOMAIN refs[Local]

\* the local ref that tracks the branch with this short name
TrackingRef(name) == RefPath(REFS, REMOTE, name)

TrackingRefs == {TrackingRef(b) : b \in ShortNames}

\* C12: after fetch(remote_path), every branch refs/heads/<b> that has a value
\* in the remote store is mirrored: the local ref refs/remote/<b> holds the id
\* the remote branch holds; the remote store is as it was, and so is every
\* local ref outside refs/remote/, and every local object.
C12_FetchMirrorsBranches ==
    [][ last'.op = "fetch"
        => /\ last'.res = "ok"
           /\ \A b \in ShortNames :
                 BranchRef(b) \in DOMAIN refs[last'.remote_path] =>
                     /\ TrackingRef(b) \in DOMAIN refs'[Local]
                     /\ refs'[Local][TrackingRef(b)] = refs[last'.remote_path][BranchRef(b)]
                     /\ refs'[Local][TrackingRef(b)][1] \in HexIds
           /\ \A s \in Stores \ {Local} : refs'[s] = refs[s]
           /\ objects' = objects
           /\ DOMAIN refs[Local] \ TrackingRefs = DOMAIN refs'[Local] \ TrackingRefs
           /\ \A n \in DOMAIN refs[Local] \ TrackingRefs : refs'[Local][n] = refs[Local][n] ]_vars

\* two branches of the remote were fetched: each tracking ref holds the id of
\* its branch, and the two ids differ
C12_Witness ==
    /\ last.op = "fetch" /\ last.res = "ok"
    /\ \A b \in BranchNames :
          /\ BranchRef(b) \in DOMAIN refs[Remote]
          /\ TrackingRef(b) \in DOMAIN refs[Local]
          /\ refs[Local][TrackingRef(b)] = refs[Remote][BranchRef(b)]
    /\ refs[Remote][BranchRef(MASTER)] # refs[Remote][BranchRef("dev")]

-----------------------------------------------------------------------------
(* Two repositories: commits are made in the local store and in the remote   *)
(* one, and objects pass between them                                         *)

\* the data given to hash_object: a blob that is stored, and one that is not
HashData == {BlobX, <<"z">>}

\* the names given to merge: the commits of both repositories, and a blob
MergeOthers == Commits(objects[Local]) \cup Commits(objects[Remote]) \cup {Hex[1]}

\* commit(message) in the local repository, while the commits are few
StoreCommit(message) ==
    /\ NumCommits(commit(LocalRepo, message).tab) <= MaxStoreCommits
    /\ Commit(message)

\* commit(message) run in the repository at remote_path, whose index is empty
RemoteCommit(remote_path, message) ==
    \E o \in {commit(Repo(sha1, objects[remote_path], refs[remote_path], index[remote_path]),
                     message)} :
        /\ NumCommits(o.tab) <= MaxStoreCommits
        /\ sha1' = o.tab
        /\ objects' = [objects EXCEPT ![remote_path] = o.obj]
        /\ refs' = [refs EXCEPT ![remote_path] = o.refs]
        /\ index' = [index EXCEPT ![remote_path] = o.index]
        /\ last' = [op |-> "remote_commit", res |-> o.res, oid |-> o.oid,
                    remote_path |-> remote_path]

\* hash_object(data, type_) in the local store
HashObject(data, type_) ==
    \E h \in {hash_object(Ctx(sha1, objects[Local]), data, type_)} :
        /\ Len(h.tab) <= Len(Hex)
        /\ sha1' = h.tab
        /\ objects' = [objects EXCEPT ![Local] = h.obj]
        /\ last' = [op |-> "hash_object", res |-> "ok", oid |-> h.oid,
                    data |-> data, type_ |-> type_]
        /\ UNCHANGED <<refs, index>>

FetchObjectIfMissing(oid, remote_path) ==
    \E f \in {fetch_object_if_missing(objects, oid, remote_path)} :
        /\ objects' = f.objs
        /\ last' = [op |-> "fetch_object_if_missing", res |-> IF f.err THEN "raised" ELSE "ok",
                    oid |-> oid, remote_path |-> remote_path]
        /\ UNCHANGED <<sha1, refs, index>>

StoreNext ==
    \/ \E message \in RefMessages : StoreCommit(message)
    \/ \E remote_path \in RemotePaths, message \in RefMessages :
          RemoteCommit(remote_path, message)
    \/ \E data \in HashData : HashObject(data, BLOB_T)
    \/ \E remote_path \in RemotePaths :
          \E oid \in DOMAIN objects[remote_path] \cup {Hex[1]} :
              FetchObjectIfMissing(oid, remote_path)
    \/ \E other \in MergeOthers : Merge(other)
    \/ \E remote_path \in RemotePaths, refname \in PushRefs : Push(remote_path, refname)

SpecStore == Init /\ [][StoreNext]_vars

\* C13: whenever merge(other) fails (HEAD unset, other not a readable commit,
\* or disjoint histories), HEAD, MERGE_HEAD, every branch ref and the staged
\* index are exactly as they were before the call
C13_MergeFailsWhole ==
    [][ (last'.op = "merge" /\ last'.res = "raised")
        => /\ refs'[Local] = refs[Local]
           /\ index'[Local] = index[Local] ]_vars

\* the file hash_object writes for data of a type
ObjectFile(data, type_) == <<type_, NUL>> \o data

\* C14: in every step of every operation, an object id present in a store
\* stays present there with the kind and bytes it was written with; and
\* hash_object on content already stored returns the id it is stored under and
\* leaves every store's objects unchanged
C14_AppendOnlyStore ==
    [][ /\ \A s \in Stores : \A oid \in DOMAIN objects[s] :
              /\ object_exists(objects'[s], oid)
              /\ objects'[s][oid] = objects[s][oid]
              /\ get_object(objects'[s], oid, None) = get_object(objects[s], oid, None)
        /\ (/\ last'.op = "hash_object"
            /\ \E oid \in DOMAIN objects[Local] :
                  objects[Local][oid] = ObjectFile(last'.data, last'.type_))
           => /\ objects' = objects
              /\ objects[Local][last'.oid] = ObjectFile(last'.data, last'.type_) ]_vars

\* content stored by a commit is hashed again; meanwhile an object has been
\* copied from the remote, two commits made here and objects pushed
C14_Witness ==
    /\ last.op = "hash_object"
    /\ last.data = BlobX
    /\ NumCommits(sha1) = MaxStoreCommits
    /\ Commits(objects[Local]) \cap Commits(objects[Remote]) # {}
    /\ Commits(objects[Local]) \ Commits(objects[Remote]) # {}
    /\ Commits(objects[Root]) # {}
    /\ MERGE_HEAD \in DOMAIN refs[Local]

-----------------------------------------------------------------------------
(* Every operation that writes a ref, given ids, ref names and the empty     *)
(* values "" and None                                                         *)

EmptyValues == {Empty, None}

ValueRefs == {HEAD, RefPath(REFS, HEADS, MASTER)}

\* the values update_ref is given: the id of a commit, a pointer to a branch,
\* and empty ones of both kinds
ValueValues(store) ==
    {RefValue(FALSE, v) : v \in Commits(store)}
        \cup {RefValue(TRUE, RefPath(REFS, HEADS, "dev"))}
        \cup {RefValue(symbolic, e) : symbolic \in BOOLEAN, e \in EmptyValues}

\* the ids reset, create_branch and create_tag are given
ValueOids(store) == Commits(store) \cup EmptyValues

ValueCommit(message) ==
    /\ NumCommits(commit(LocalRepo, message).tab) <= MaxValueCommits
    /\ Commit(message)

ValueNext ==
    \/ \E ref \in ValueRefs, value \in ValueValues(objects[Local]), deref \in BOOLEAN :
          UpdateRef(ref, value, deref)
    \/ \E ref \in ValueRefs \cup {MERGE_HEAD} : DeleteRef(ref, TRUE)
    \/ \E message \in RefMessages : ValueCommit(message)
    \/ \E name \in {MASTER, "dev"} : Checkout(name)
    \/ \E oid \in ValueOids(objects[Local]) : Reset(oid)
    \/ \E other \in Commits(objects[Local]) : Merge(other)
    \/ \E name \in OpsBranchNames, oid \in ValueOids(objects[Local]) : CreateBranch(name, oid)
    \/ \E name \in TagNames, oid \in ValueOids(objects[Local]) : CreateTag(name, oid)
    \/ \E remote_path \in RemotePaths : Fetch(remote_path)
    \/ \E remote_path \in RemotePaths : Push(remote_path, RefPath(REFS, HEADS, MASTER))

SpecValue == Init /\ [][ValueNext]_vars

\* every ref file of every store holds text, and the value read from it,
\* without following it, is not empty
NoEmptyRef(rfs) ==
    \A s \in Stores : \A n \in DOMAIN rfs[s] :
        /\ Strip(rfs[s][n]) # <<>>
        /\ Truthy(get_ref(rfs[s], n, FALSE).value)

\* C15: in every reachable state every ref that exists in a store holds a
\* non-empty value, and an update_ref call whose value is empty fails and
\* leaves every ref, the target included, unchanged
C15_RefValuesNeverEmpty ==
    /\ []NoEmptyRef(refs)
    /\ [][ (last'.op = "update_ref" /\ ~Truthy(last'.value.value))
           => (last'.res = "raised" /\ refs' = refs) ]_vars

\* an empty value has just been refused for a ref that exists, in a store
\* with a branch, a tag, a tracking ref and a pushed ref
C15_Witness ==
    /\ last.op = "update_ref" /\ last.res = "raised"
    /\ last.value.value = Empty
    /\ last.ref \in DOMAIN refs[Local]
    /\ BranchRef("dev") \in DOMAIN refs[Local]
    /\ \E n \in TagNames : TagRef(n) \in DOMAIN refs[Local]
    /\ TrackingRef(MASTER) \in DOMAIN refs[Local]

-----------------------------------------------------------------------------
(* A merge in progress, and every operation that may follow it; branches and *)
(* tags are made at the commit HEAD resolves to                               *)

\* the start point of create_branch and create_tag: HEAD's commit, when it has one
AtHead == {Resolved(refs, HEAD)} \cap Commits(objects[Local])

MergingCommit(message) ==
    /\ NumCommits(commit(LocalRepo, message).tab) <= MaxMergingCommits
    /\ Commit(message)

MergingNext ==
    \/ \E message \in RefMessages : MergingCommit(message)
    \/ \E name \in BranchNames : Checkout(name)
    \/ \E oid \in Commits(objects[Local]) : Reset(oid)
    \/ \E other \in Commits(objects[Local]) : Merge(other)
    \/ \E name \in OpsBranchNames, oid \in AtHead : CreateBranch(name, oid)
    \/ \E name \in TagNames, oid \in AtHead : CreateTag(name, oid)
    \/ \E remote_path \in RemotePaths : Fetch(remote_path)
    \/ \E remote_path \in RemotePaths : Push(remote_path, RefPath(REFS, HEADS, MASTER))

SpecMerging == Init /\ [][MergingNext]_vars

\* the local store is in the merging state
Merging(rfs) == MERGE_HEAD \in DOMAIN rfs[Local]

\* C16: once MERGE_HEAD is set it stays set through checkout, reset, merge,
\* create_branch, create_tag, fetch and push, and becomes absent only as the
\* effect of a commit, which removes it; and it is never set by anything but
\* a merge that is not a fast-forward
C16_MergingLeftByCommit ==
    [][ /\ (Merging(refs) /\ last'.op # "commit") => Merging(refs')
        /\ (Merging(refs) /\ last'.op = "commit" /\ last'.res = "ok") => ~Merging(refs')
        /\ (Merging(refs) /\ ~Merging(refs'))
              => (last'.op = "commit" /\ last'.res = "ok")
        /\ (~Merging(refs) /\ Merging(refs'))
              => /\ last'.op = "merge"
                 /\ Resolved(refs, HEAD) \notin Ancestors(objects[Local], last'.other)
                 /\ HoldsId(refs'[Local], MERGE_HEAD, last'.other) ]_vars

\* a commit has just ended a merge, in a store with a second branch, a tag
\* and a tracking ref
C16_Witness ==
    /\ last.op = "commit" /\ last.res = "ok"
    /\ ~Merging(refs)
    /\ Len(get_commit(objects[Local], last.oid).parents) = 2
    /\ \E n \in TagNames : TagRef(n) \in DOMAIN refs[Local]
    /\ TrackingRef(MASTER) \in DOMAIN refs[Local]
    /\ BranchRef("dev") \in DOMAIN refs[Local]

-----------------------------------------------------------------------------
(* The walk of iter_commits_and_parents over commit graphs of any shape,     *)
(* one id at a time                                                           *)

\* the ids a walk starts from, in the order the deque gets them
WalkStarts(store) ==
    {oids \in UNION {[1..k -> Commits(store) \cup {None}] : k \in 1..MaxStart} :
        \A i, j \in DOMAIN oids : i # j => oids[i] # oids[j]}

WalkCommit(head, merge_head, message) ==
    /\ Unasked
    /\ NumCommits(commit(Repo(sha1, objects[Local], RefsAt(head, merge_head), StagedIndex),
                         message).tab) <= MaxWalkCommits
    /\ GraphCommit(head, merge_head, message)

\* iter_commits_and_parents(oids): the generator is made
IterStart(oids) ==
    /\ Unasked
    /\ last' = iter_frame(objects[Local], oids)
    /\ UNCHANGED <<sha1, objects, refs, index>>

\* next() on the generator
IterNext ==
    /\ last.op = "iter_commits_and_parents"
    /\ last.res \in {"started", "yielded"}
    /\ last' = iter_next(last)
    /\ UNCHANGED <<sha1, objects, refs, index>>

WalkNext ==
    \/ Unasked /\ \E head, merge_head \in Commits(objects[Local]) \cup {None},
                       message \in Messages :
                     WalkCommit(head, merge_head, message)
    \/ Unasked /\ \E oids \in WalkStarts(objects[Local]) : IterStart(oids)
    \/ IterNext

\* the caller takes ids until the generator is exhausted
SpecWalk == Init /\ [][WalkNext]_vars /\ WF_vars(IterNext)

\* a walk is under way or over
Walking == last.op = "iter_commits_and_parents"

\* parents[:1] and parents[1:] of a commit of the local store
FirstParent(c) == Slice(get_commit(objects[Local], c).parents, 1, 1)
OtherParents(c) ==
    Slice(get_commit(objects[Local], c).parents, 2, Len(get_commit(objects[Local], c).parents))

\* the first-parent chain from the ids of a sequence, the ids included
RECURSIVE Mainline(_)
Mainline(ids) ==
    IF \A i \in DOMAIN ids : ~Truthy(ids[i]) THEN {}
    ELSE {ids[i] : i \in {j \in DOMAIN ids : Truthy(ids[j])}}
            \cup UNION {Mainline(FirstParent(ids[i])) : i \in {j \in DOMAIN ids : Truthy(ids[j])}}

\* the ids yielded before the i-th one, and up to it
YieldedBefore(i) == {last.seq[j] : j \in 1..(i - 1)}

\* the walk yields reachable commits, each once, and when it is over all of
\* them: what the generator run in one go yields
YieldsReachableOnce ==
    /\ Range(last.seq) \subseteq Closure(objects[Local], Range(last.start) \ {None})
    /\ Cardinality(Range(last.seq)) = Len(last.seq)
    /\ last.res # "raised"
    /\ last.res = "done" =>
          /\ Range(last.seq) = Closure(objects[Local], Range(last.start) \ {None})
          /\ last.seq = iter_commits_and_parents(objects[Local], last.start).seq

\* the deque holds start ids and parents of commits yielded and resumed, and
\* the commit whose yield suspends the generator is the last one yielded
YieldedBeforeExpanded ==
    /\ Range(last.oids) \subseteq
          Range(last.start)
              \cup UNION {Range(get_commit(objects[Local], c).parents) :
                             c \in Range(last.seq) \ {last.pending}}
    /\ last.pending # None => last.pending = last.seq[Len(last.seq)]

\* the id yielded after a commit is its first parent, unless that was yielded
\* already
FirstParentNext ==
    \A i \in DOMAIN last.seq :
        \A p \in Range(FirstParent(last.seq[i])) \ (YieldedBefore(i) \cup {last.seq[i]}) :
            /\ i < Len(last.seq) => last.seq[i + 1] = p
            /\ last.res = "done" => i < Len(last.seq)

\* p, a parent of the i-th id yielded, is not yielded before q, an id queued
\* when the i-th was yielded and not yielded by then
After(p, q) ==
    p \in Range(last.seq) =>
        (q \in Range(last.seq) /\ IndexOf(last.seq, q) < IndexOf(last.seq, p))

\* the other parents of a commit, not yielded with it or before it, are
\* yielded only after everything queued when the commit was yielded
OtherParentsLast ==
    \A i \in DOMAIN last.seq :
        \A p \in Range(OtherParents(last.seq[i])) \ (YieldedBefore(i) \cup {last.seq[i]}) :
            \A q \in Range(last.queued[i]) \ (YieldedBefore(i) \cup {last.seq[i], p, None}) :
                After(p, q)

\* the same of the other parents that are not queued themselves and do not lie
\* on the first-parent chain of the first parent or of a queued id
OtherParentsLastOffMainline ==
    \A i \in DOMAIN last.seq :
        \A p \in Range(OtherParents(last.seq[i])) \ (YieldedBefore(i) \cup {last.seq[i]}) :
            p \notin Mainline(FirstParent(last.seq[i]) \o last.queued[i]) =>
                \A q \in Range(last.queued[i]) \ (YieldedBefore(i) \cup {last.seq[i], p, None}) :
                    After(p, q)

\* C17, as stated: the walk ends and yields exactly the commits reachable from
\* the start ids, each once; a commit is yielded before its parents are
\* queued; the id yielded next is its first parent unless that was yielded
\* already; and its other parents are yielded only after everything already
\* queued
C17_OtherParentsAfterQueue ==
    /\ [](Walking => /\ YieldsReachableOnce /\ YieldedBeforeExpanded
                     /\ FirstParentNext /\ OtherParentsLast)
    /\ (Walking ~> (Walking /\ last.res = "done"))

\* C17, amended: the same, the other parents being yielded after everything
\* already queued unless they are queued themselves or lie on the first-parent
\* chain of the commit's first parent or of an id already queued
C17_Traversal ==
    /\ [](Walking => /\ YieldsReachableOnce /\ YieldedBeforeExpanded
                     /\ FirstParentNext /\ OtherParentsLastOffMainline)
    /\ (Walking ~> (Walking /\ last.res = "done"))

\* a walk from two ids is over; it went through a merge commit whose second
\* parent was yielded after an id queued before it, off every first-parent chain
C17_Witness ==
    /\ Walking /\ last.res = "done"
    /\ Len(last.start) = 2
    /\ \E i \in DOMAIN last.seq :
          \E p \in Range(OtherParents(last.seq[i])) \ (YieldedBefore(i) \cup {last.seq[i]}) :
              /\ p \notin Mainline(FirstParent(last.seq[i]) \o last.queued[i])
              /\ \E q \in Range(last.queued[i]) \ (YieldedBefore(i) \cup {last.seq[i], p, None}) :
                    IndexOf(last.seq, q) < IndexOf(last.seq, p)

-----------------------------------------------------------------------------
(* Merges of a commit that is already merged, and checkouts of a name that   *)
(* a tag and a branch share                                                   *)

\* C18: merge(other) sets MERGE_HEAD and stages a three-way merge only when
\* neither HEAD nor other is an ancestor of the other; when other is a strict
\* ancestor of HEAD, merge(other) leaves HEAD, MERGE_HEAD and the staged index
\* unchanged
C18_MergeOnlyOnDivergence ==
    [][ (last'.op = "merge" /\ Truthy(Resolved(refs, HEAD)))
        => /\ last'.res = "merged"
                 => /\ Resolved(refs, HEAD) \notin Ancestors(objects[Local], last'.other)
                    /\ last'.other \notin Ancestors(objects[Local], Resolved(refs, HEAD))
           /\ (/\ last'.other # Resolved(refs, HEAD)
               /\ last'.other \in Ancestors(objects[Local], Resolved(refs, HEAD)))
                 => /\ refs'[Local] = refs[Local]
                    /\ index'[Local] = index[Local] ]_vars

\* C19: after every successful checkout(name), also when a tag and a branch
\* share the short name, the commit HEAD resolves to is the commit name was
\* resolved to, and the staged index is that commit's flattened tree
C19_CheckoutConsistent ==
    [][ (last'.op = "checkout" /\ last'.res = "ok")
        => /\ Resolved(refs', HEAD) = get_oid(LocalRepo, last'.name).oid
           /\ DictItems(index'[Local]) =
                 DictItems(get_tree(objects[Local],
                                    get_commit(objects[Local],
                                               get_oid(LocalRepo, last'.name).oid).tree,
                                    <<>>).d) ]_vars

\* the refs of a store: HEAD alone may be symbolic, and then it names a branch
\* whose ref, when there is one, holds an id; every other ref holds an id; and
\* the resolution of every ref ends
ShortChains(store) ==
    \A n \in DOMAIN store :
        /\ get_ref(store, n, FALSE).symbolic
              => /\ n = HEAD
                 /\ get_ref(store, n, FALSE).value \in {BranchRef(b) : b \in BranchNames}
                 /\ ~get_ref(store, get_ref(store, n, FALSE).value, FALSE).symbolic
        /\ ~get_ref(store, n, FALSE).symbolic => get_ref(store, n, FALSE).value \in HexIds
        /\ ~get_ref_internal(store, n, TRUE).err
        /\ get_ref_internal(store, n, TRUE).ref
              \in {n, get_ref(store, n, FALSE).value}

\* C20: in every state reached by commit, checkout, reset, merge,
\* create_branch, create_tag, fetch and push, in every store, HEAD is the only
\* ref that can be symbolic, its target is a name under refs/heads/, every
\* other ref holds a direct id, and resolving a ref follows one link at most
C20_ShortChains == \A s \in Stores : ShortChains(refs[s])

\* HEAD points to a branch made by create_branch, next to a tag of the same
\* name, a tracking ref and a ref pushed to the remote
C20_Witness ==
    /\ last.op = "checkout" /\ last.res = "ok"
    /\ PointsTo(refs[Local], HEAD, BranchRef("dev"))
    /\ TagRef("dev") \in DOMAIN refs[Local]
    /\ TrackingRef(MASTER) \in DOMAIN refs[Local]
    /\ BranchRef(MASTER) \in DOMAIN refs[Remote]

====
